---- MODULE Spec2Model ----
(***************************************************************************)
(* Day 9 solver of triozer/aoc-2025: the largest axis-aligned rectangle    *)
(* spanned by two vertices of a rectilinear polygon and contained in it.   *)
(*                                                                         *)
(* Number representation.  The program's numbers are either integers       *)
(* (point coordinates, range bounds, areas) or multiples of 0.5 (the       *)
(* sample rows (y + nextY) / 2 and y +- eps with eps = 0.5).  Every        *)
(* quantity that may be a multiple of 0.5 -- the elements of ySamples, the *)
(* keys of coverageCache and the y argument of getCoverageAtY and          *)
(* getInteriorAtY -- is stored as twice its value ("half units"), and an   *)
(* integer v compared with such a quantity is written H(v).                *)
(***************************************************************************)
EXTENDS Integers, Sequences, FiniteSets, TLC

\* ---------------------------------------------------------------- bounds
MaxX == 3
MaxY == 3
MaxPoints == 8
MaxLen == 3
MaxCoord == 1

\* ------------------------------------------------------------ arithmetic
H(v) == 2 * v

Abs(v) == IF v < 0 THEN -v ELSE v

Min(a, b) == IF a < b THEN a ELSE b

Max(a, b) == IF a > b THEN a ELSE b

Pt(px, py) == [x |-> px, y |-> py]

\* ------------------------------------------------------- input polygons
\* The example of the puzzle (example.txt) and the square of the spec.
Example ==
  << Pt(7, 1), Pt(11, 1), Pt(11, 7), Pt(9, 7), Pt(9, 5), Pt(2, 5), Pt(2, 3), Pt(7, 3) >>

Square10 == << Pt(0, 0), Pt(10, 0), Pt(10, 10), Pt(0, 10) >>

\* a polygon with a rectangular concavity two units wide and two units deep
Notched ==
  << Pt(0, 0), Pt(4, 0), Pt(4, 3), Pt(3, 3), Pt(3, 1), Pt(1, 1), Pt(1, 3), Pt(0, 3) >>

Grid == { Pt(px, py) : px \in 0..MaxX, py \in 0..MaxY }

\* lattice points of the segment from p to q (p, q on one row or column)
SegPts(p, q) ==
  { Pt(px, py) : px \in Min(p.x, q.x)..Max(p.x, q.x), py \in Min(p.y, q.y)..Max(p.y, q.y) }

Aligned(p, q) == p # q /\ ((p.x = q.x) # (p.y = q.y))

\* three consecutive points on one line: the corner at q is no corner
Straight(p, q, r) == (p.x = q.x /\ q.x = r.x) \/ (p.y = q.y /\ q.y = r.y)

Occupied(c) == UNION { SegPts(c[k], c[k + 1]) : k \in 1..(Len(c) - 1) }

Before(p, q) == p.x < q.x \/ (p.x = q.x /\ p.y < q.y)

\* the corners that may follow the chain c: a turn at its last corner to a
\* point that keeps the chain clear of itself
Turns(c) ==
  LET last == c[Len(c)]
      occ == Occupied(c)
      meet == IF Len(c) >= 2 THEN {last} ELSE {}
      line == { Pt(px, last.y) : px \in 0..MaxX } \cup { Pt(last.x, py) : py \in 0..MaxY }
  IN { q \in line :
         /\ Aligned(last, q)
         /\ Before(c[1], q)
         /\ Len(c) >= 2 => ~Straight(c[Len(c) - 1], last, q)
         /\ SegPts(last, q) \cap occ = meet }

\* the chain c closes into a simple rectilinear polygon
Closes(c) ==
  LET n == Len(c) IN
  /\ n >= 4
  /\ Aligned(c[n], c[1])
  /\ ~Straight(c[n - 1], c[n], c[1])
  /\ ~Straight(c[n], c[1], c[2])
  /\ SegPts(c[n], c[1]) \cap Occupied(c) = {c[n], c[1]}

\* the simple rectilinear polygons of at most MaxPoints corners that start
\* with the chain c
RECURSIVE PolygonsFrom(_)
PolygonsFrom(c) ==
  (IF Closes(c) THEN {c} ELSE {})
    \cup (IF Len(c) >= MaxPoints THEN {}
          ELSE UNION { PolygonsFrom(Append(c, q)) : q \in Turns(c) })

\* every simple rectilinear polygon with corners on the grid and at most
\* MaxPoints corners, in both orientations, listed from its first corner in
\* the order Before
GridPolygons == UNION { PolygonsFrom(<< p >>) : p \in Grid }

Polygons == GridPolygons \cup {Example, Square10, Notched}

\* ------------------------------------------------------- array helpers
\* Array.prototype.sort((a, b) => a - b): ascending and stable
RECURSIVE InsertNumber(_, _)
InsertNumber(s, v) ==
  IF s = << >> \/ s[Len(s)] <= v THEN Append(s, v)
  ELSE Append(InsertNumber(SubSeq(s, 1, Len(s) - 1), v), s[Len(s)])

RECURSIVE SortNumbers(_)
SortNumbers(s) ==
  IF s = << >> THEN << >>
  ELSE InsertNumber(SortNumbers(SubSeq(s, 1, Len(s) - 1)), s[Len(s)])

\* ranges.sort((a, b) => a.start - b.start): ascending by start and stable
RECURSIVE InsertRange(_, _)
InsertRange(s, r) ==
  IF s = << >> \/ s[Len(s)].start <= r.start THEN Append(s, r)
  ELSE Append(InsertRange(SubSeq(s, 1, Len(s) - 1), r), s[Len(s)])

RECURSIVE SortByStart(_)
SortByStart(s) ==
  IF s = << >> THEN << >>
  ELSE InsertRange(SortByStart(SubSeq(s, 1, Len(s) - 1)), s[Len(s)])

\* Array.from(new Set(values)): the first occurrence of every value, in order
RECURSIVE Unique(_)
Unique(s) ==
  IF s = << >> THEN << >>
  ELSE LET front == Unique(SubSeq(s, 1, Len(s) - 1))
           v == s[Len(s)]
       IN IF \E k \in 1..Len(front) : front[k] = v THEN front ELSE Append(front, v)

\* ------------------------------------------------------------ the solver
\* mutant: the width is taken without Math.abs
area_Signed(p1, p2) == ((p2.x - p1.x) + 1) * (Abs(p2.y - p1.y) + 1)

area(p1, p2) == (Abs(p2.x - p1.x) + 1) * (Abs(p2.y - p1.y) + 1)

\* the loops of part1 from the pair (i, j) on, 0-based as in the source
RECURSIVE part1Loop(_, _, _, _)
part1Loop(pts, i, j, maxArea) ==
  IF i >= Len(pts) THEN maxArea
  ELSE IF j >= Len(pts) THEN part1Loop(pts, i + 1, i + 2, maxArea)
  ELSE LET currentArea == area(pts[i + 1], pts[j + 1])
       IN part1Loop(pts, i, j + 1, IF currentArea > maxArea THEN currentArea ELSE maxArea)

\* mutant: the outer loop starts at the second point
part1_FromSecond(pts) == part1Loop(pts, 1, 2, 0)

part1(pts) == part1Loop(pts, 0, 1, 0)

\* the pairing loop of getInteriorAtY from index i (0-based) on
RECURSIVE PairUp(_, _)
PairUp(crossingXs, i) ==
  IF i >= Len(crossingXs) THEN << >>
  ELSE IF i + 1 < Len(crossingXs)
       THEN << [start |-> crossingXs[i + 1], end |-> crossingXs[i + 2]] >>
              \o PairUp(crossingXs, i + 2)
       ELSE PairUp(crossingXs, i + 2)

\* mutant: the crossings are paired in the order of the edge list, unsorted
getInteriorAtY_Unsorted(yy, verticalEdges) ==
  LET crossing == SelectSeq(verticalEdges, LAMBDA e : H(e.y1) < yy /\ H(e.y2) > yy)
  IN PairUp([k \in 1..Len(crossing) |-> crossing[k].x], 0)

\* mutant: the row is truncated to an integer before the edges are compared
getInteriorAtY_Floor(yy, verticalEdges) ==
  LET crossing == SelectSeq(verticalEdges,
                            LAMBDA e : e.y1 < yy \div 2 /\ e.y2 > yy \div 2)
      crossingXs == SortNumbers([k \in 1..Len(crossing) |-> crossing[k].x])
  IN PairUp(crossingXs, 0)

\* yy is twice the row y of the source
getInteriorAtY(yy, verticalEdges) ==
  LET crossing == SelectSeq(verticalEdges, LAMBDA e : H(e.y1) < yy /\ H(e.y2) > yy)
      crossingXs == SortNumbers([k \in 1..Len(crossing) |-> crossing[k].x])
  IN PairUp(crossingXs, 0)

\* mutant: a coalesced range ends where the range just read ends
RECURSIVE MergeLoop_LastEnd(_, _, _)
MergeLoop_LastEnd(sorted, k, merged) ==
  IF k > Len(sorted) THEN merged
  ELSE LET r == sorted[k]
           m == Len(merged)
       IN IF m = 0 \/ merged[m].end < r.start
          THEN MergeLoop_LastEnd(sorted, k + 1,
                 Append(merged, [start |-> r.start, end |-> r.end]))
          ELSE MergeLoop_LastEnd(sorted, k + 1, [merged EXCEPT ![m].end = r.end])

\* the loop of mergeRanges over the sorted ranges from index k (1-based) on
RECURSIVE MergeLoop(_, _, _)
MergeLoop(sorted, k, merged) ==
  IF k > Len(sorted) THEN merged
  ELSE LET r == sorted[k]
           m == Len(merged)
       IN IF m = 0 \/ merged[m].end < r.start
          THEN MergeLoop(sorted, k + 1, Append(merged, [start |-> r.start, end |-> r.end]))
          ELSE MergeLoop(sorted, k + 1,
                 [merged EXCEPT ![m].end = Max(merged[m].end, r.end)])

\* mutant: the sorted ranges are returned without being coalesced
mergeRanges_Unmerged(ranges) == SortByStart(ranges)

mergeRanges(ranges) ==
  IF Len(ranges) = 0 THEN << >> ELSE MergeLoop(SortByStart(ranges), 1, << >>)

\* a Map<number, Range[]> is a function from its keys to references into
\* heap, the Range[] arrays the program has allocated and kept
EmptyMap == [k \in {} |-> 0]

MapSet(map, key, value) ==
  [k \in DOMAIN map \cup {key} |-> IF k = key THEN value ELSE map[k]]

\* mutant: a vertex row is scanned like any other row, with no look at the
\* rows just above and below it nor at the horizontal edges
getCoverageAtY_NoTieBreak(yy, pts, verticalEdges, horizontalEdges, cache, hp) ==
  IF yy \in DOMAIN cache
  THEN [coverage |-> cache[yy], coverageCache |-> cache, heap |-> hp]
  ELSE [coverage |-> Len(hp) + 1,
        coverageCache |-> MapSet(cache, yy, Len(hp) + 1),
        heap |-> Append(hp, getInteriorAtY(yy, verticalEdges))]

\* mutant: an empty cached array counts as a miss, so it is computed again
getCoverageAtY_EmptyIsMiss(yy, pts, verticalEdges, horizontalEdges, cache, hp) ==
  IF yy \in DOMAIN cache /\ hp[cache[yy]] # << >>
  THEN [coverage |-> cache[yy], coverageCache |-> cache, heap |-> hp]
  ELSE [coverage |-> Len(hp) + 1,
        coverageCache |-> MapSet(cache, yy, Len(hp) + 1),
        heap |-> Append(hp, << >>)]

\* mutant: the computed coverage is returned without being stored
getCoverageAtY_NoStore(yy, pts, verticalEdges, horizontalEdges, cache, hp) ==
  IF yy \in DOMAIN cache
  THEN [coverage |-> cache[yy], coverageCache |-> cache, heap |-> hp]
  ELSE LET isAtVertex == \E k \in 1..Len(pts) : H(pts[k].y) = yy
           flat == SelectSeq(horizontalEdges, LAMBDA e : H(e.y) = yy)
           fresh ==
             IF isAtVertex
             THEN mergeRanges(getInteriorAtY(yy + 1, verticalEdges)
                    \o getInteriorAtY(yy - 1, verticalEdges)
                    \o [k \in 1..Len(flat) |-> [start |-> flat[k].x1, end |-> flat[k].x2]])
             ELSE getInteriorAtY(yy, verticalEdges)
       IN [coverage |-> Len(hp) + 1, coverageCache |-> cache, heap |-> Append(hp, fresh)]

\* mutant: the coverage is returned, but what is stored for the row is the
\* interior of the row alone, without the rows beside it and the edges
getCoverageAtY_StoreRaw(yy, pts, verticalEdges, horizontalEdges, cache, hp) ==
  IF yy \in DOMAIN cache
  THEN [coverage |-> cache[yy], coverageCache |-> cache, heap |-> hp]
  ELSE LET isAtVertex == \E k \in 1..Len(pts) : H(pts[k].y) = yy
           flat == SelectSeq(horizontalEdges, LAMBDA e : H(e.y) = yy)
           coverage ==
             IF isAtVertex
             THEN mergeRanges(getInteriorAtY(yy + 1, verticalEdges)
                    \o getInteriorAtY(yy - 1, verticalEdges)
                    \o [k \in 1..Len(flat) |-> [start |-> flat[k].x1, end |-> flat[k].x2]])
             ELSE getInteriorAtY(yy, verticalEdges)
           ref == Len(hp) + 1
       IN [coverage |-> ref,
           coverageCache |-> MapSet(cache, yy, ref + 1),
           heap |-> Append(Append(hp, coverage), getInteriorAtY(yy, verticalEdges))]

\* mutant: the cache is never consulted, every call computes and stores anew
getCoverageAtY_Recompute(yy, pts, verticalEdges, horizontalEdges, cache, hp) ==
  LET isAtVertex == \E k \in 1..Len(pts) : H(pts[k].y) = yy
      flat == SelectSeq(horizontalEdges, LAMBDA e : H(e.y) = yy)
      fresh ==
        IF isAtVertex
        THEN mergeRanges(getInteriorAtY(yy + 1, verticalEdges)
               \o getInteriorAtY(yy - 1, verticalEdges)
               \o [k \in 1..Len(flat) |-> [start |-> flat[k].x1, end |-> flat[k].x2]])
        ELSE getInteriorAtY(yy, verticalEdges)
  IN [coverage |-> Len(hp) + 1,
      coverageCache |-> MapSet(cache, yy, Len(hp) + 1),
      heap |-> Append(hp, fresh)]

\* yy is twice the row y of the source; the result holds the returned array
\* (a reference) and the cache and heap the call leaves behind
getCoverageAtY(yy, pts, verticalEdges, horizontalEdges, cache, hp) ==
  IF yy \in DOMAIN cache
  THEN [coverage |-> cache[yy], coverageCache |-> cache, heap |-> hp]
  ELSE LET isAtVertex == \E k \in 1..Len(pts) : H(pts[k].y) = yy
           flat == SelectSeq(horizontalEdges, LAMBDA e : H(e.y) = yy)
           coverage ==
             IF isAtVertex
             THEN mergeRanges(getInteriorAtY(yy + 1, verticalEdges)
                    \o getInteriorAtY(yy - 1, verticalEdges)
                    \o [k \in 1..Len(flat) |-> [start |-> flat[k].x1, end |-> flat[k].x2]])
             ELSE getInteriorAtY(yy, verticalEdges)
           ref == Len(hp) + 1
       IN [coverage |-> ref,
           coverageCache |-> MapSet(cache, yy, ref),
           heap |-> Append(hp, coverage)]

\* what lowerBound does when arr[mid] is undefined: it never leaves the loop
\* (no index is negative, so -1 stands for "no return")
NoReturn == -1

\* the loop of lowerBound; lo, hi and mid are 0-based as in the source
RECURSIVE lowerBoundLoop(_, _, _, _)
lowerBoundLoop(arr, target, lo, hi) ==
  IF lo < hi
  THEN LET mid == (lo + hi) \div 2
       IN IF ~(mid + 1 \in DOMAIN arr) THEN NoReturn
          ELSE IF arr[mid + 1] < target THEN lowerBoundLoop(arr, target, mid + 1, hi)
          ELSE lowerBoundLoop(arr, target, lo, mid)
  ELSE lo

\* mutant: the search returns the first index whose value exceeds the target
RECURSIVE upperBoundLoop(_, _, _, _)
upperBoundLoop(arr, target, lo, hi) ==
  IF lo < hi
  THEN LET mid == (lo + hi) \div 2
       IN IF arr[mid + 1] <= target THEN upperBoundLoop(arr, target, mid + 1, hi)
          ELSE upperBoundLoop(arr, target, lo, mid)
  ELSE lo

lowerBound_Upper(arr, target) == upperBoundLoop(arr, target, 0, Len(arr))

\* mutant: hi starts one past the length of the array
lowerBound_PastEnd(arr, target) == lowerBoundLoop(arr, target, 0, Len(arr) + 1)

lowerBound(arr, target) == lowerBoundLoop(arr, target, 0, Len(arr))

\* mutant: the loop goes on after a row that is not covered and returns false
\* at the end
RECURSIVE scanSamples_Through(_, _, _, _, _, _, _, _, _, _, _)
scanSamples_Through(i, minX, maxX, maxY, samples, pts, verticalEdges, horizontalEdges, cache, hp, examined) ==
  IF i < Len(samples) /\ samples[i + 1] <= H(maxY)
  THEN LET got == getCoverageAtY(samples[i + 1], pts, verticalEdges, horizontalEdges,
                                 cache, hp)
           coverage == got.heap[got.coverage]
           isCovered == \E k \in 1..Len(coverage) :
                          coverage[k].start <= minX /\ coverage[k].end >= maxX
           rest == scanSamples_Through(i + 1, minX, maxX, maxY, samples, pts, verticalEdges,
                                       horizontalEdges, got.coverageCache, got.heap,
                                       Append(examined, samples[i + 1]))
       IN IF ~isCovered THEN [rest EXCEPT !.valid = FALSE] ELSE rest
  ELSE [returns |-> TRUE, valid |-> TRUE, coverageCache |-> cache, heap |-> hp,
        examined |-> examined]

\* mutant: the loop does not stop at maxY
RECURSIVE scanSamples_PastMaxY(_, _, _, _, _, _, _, _, _, _, _)
scanSamples_PastMaxY(i, minX, maxX, maxY, samples, pts, verticalEdges, horizontalEdges, cache, hp, examined) ==
  IF i < Len(samples)
  THEN LET got == getCoverageAtY(samples[i + 1], pts, verticalEdges, horizontalEdges,
                                 cache, hp)
           coverage == got.heap[got.coverage]
           isCovered == \E k \in 1..Len(coverage) :
                          coverage[k].start <= minX /\ coverage[k].end >= maxX
       IN IF ~isCovered
          THEN [returns |-> TRUE, valid |-> FALSE, coverageCache |-> got.coverageCache,
                heap |-> got.heap, examined |-> Append(examined, samples[i + 1])]
          ELSE scanSamples_PastMaxY(i + 1, minX, maxX, maxY, samples, pts, verticalEdges,
                                    horizontalEdges, got.coverageCache, got.heap,
                                    Append(examined, samples[i + 1]))
  ELSE [returns |-> TRUE, valid |-> TRUE, coverageCache |-> cache, heap |-> hp,
        examined |-> examined]

\* the loop of isRectangleValid from index i (0-based) on; examined lists the
\* samples whose coverage the call has fetched so far; returns tells whether
\* the call comes back at all
RECURSIVE scanSamples(_, _, _, _, _, _, _, _, _, _, _)
scanSamples(i, minX, maxX, maxY, samples, pts, verticalEdges, horizontalEdges, cache, hp, examined) ==
  IF i < Len(samples) /\ samples[i + 1] <= H(maxY)
  THEN LET got == getCoverageAtY(samples[i + 1], pts, verticalEdges, horizontalEdges,
                                 cache, hp)
           coverage == got.heap[got.coverage]
           isCovered == \E k \in 1..Len(coverage) :
                          coverage[k].start <= minX /\ coverage[k].end >= maxX
       IN IF ~isCovered
          THEN [returns |-> TRUE, valid |-> FALSE, coverageCache |-> got.coverageCache,
                heap |-> got.heap, examined |-> Append(examined, samples[i + 1])]
          ELSE scanSamples(i + 1, minX, maxX, maxY, samples, pts, verticalEdges,
                           horizontalEdges, got.coverageCache, got.heap,
                           Append(examined, samples[i + 1]))
  ELSE [returns |-> TRUE, valid |-> TRUE, coverageCache |-> cache, heap |-> hp,
        examined |-> examined]

isRectangleValid(p1, p2, samples, pts, verticalEdges, horizontalEdges, cache, hp) ==
  LET minX == Min(p1.x, p2.x)
      maxX == Max(p1.x, p2.x)
      minY == Min(p1.y, p2.y)
      maxY == Max(p1.y, p2.y)
      startIdx == lowerBound(samples, H(minY))
  IN IF startIdx = NoReturn
     THEN [returns |-> FALSE, valid |-> FALSE, coverageCache |-> cache, heap |-> hp,
           examined |-> << >>]
     ELSE scanSamples(startIdx, minX, maxX, maxY, samples, pts, verticalEdges,
                      horizontalEdges, cache, hp, << >>)

\* the loop of the visualizer's isRectangleValid over all samples from index
\* k (0-based) on: a sample outside [minY, maxY] is skipped
RECURSIVE scanAll(_, _, _, _, _, _, _, _, _, _, _, _)
scanAll(k, minX, maxX, minY, maxY, samples, pts, verticalEdges, horizontalEdges, cache, hp, examined) ==
  IF k >= Len(samples)
  THEN [returns |-> TRUE, valid |-> TRUE, coverageCache |-> cache, heap |-> hp,
        examined |-> examined]
  ELSE IF samples[k + 1] < H(minY) \/ samples[k + 1] > H(maxY)
  THEN scanAll(k + 1, minX, maxX, minY, maxY, samples, pts, verticalEdges,
               horizontalEdges, cache, hp, examined)
  ELSE LET got == getCoverageAtY(samples[k + 1], pts, verticalEdges, horizontalEdges,
                                 cache, hp)
           coverage == got.heap[got.coverage]
           isCovered == \E m \in 1..Len(coverage) :
                          coverage[m].start <= minX /\ coverage[m].end >= maxX
       IN IF ~isCovered
          THEN [returns |-> TRUE, valid |-> FALSE, coverageCache |-> got.coverageCache,
                heap |-> got.heap, examined |-> Append(examined, samples[k + 1])]
          ELSE scanAll(k + 1, minX, maxX, minY, maxY, samples, pts, verticalEdges,
                       horizontalEdges, got.coverageCache, got.heap,
                       Append(examined, samples[k + 1]))

\* isRectangleValid of the visualizer: a linear scan, no binary search
isRectangleValidLinear(p1, p2, samples, pts, verticalEdges, horizontalEdges, cache, hp) ==
  scanAll(0, Min(p1.x, p2.x), Max(p1.x, p2.x), Min(p1.y, p2.y), Max(p1.y, p2.y),
          samples, pts, verticalEdges, horizontalEdges, cache, hp, << >>)

\* mutant: a pair is a vertical edge when its x agree, and horizontal otherwise
RECURSIVE edgesLoop_ByX(_, _, _, _)
edgesLoop_ByX(pts, i, horizontal, vertical) ==
  IF i >= Len(pts) THEN [horizontalEdges |-> horizontal, verticalEdges |-> vertical]
  ELSE LET p1 == pts[i + 1]
           p2 == pts[((i + 1) % Len(pts)) + 1]
       IN IF p1.x # p2.x
          THEN edgesLoop_ByX(pts, i + 1,
                 Append(horizontal,
                        [y |-> p1.y, x1 |-> Min(p1.x, p2.x), x2 |-> Max(p1.x, p2.x)]),
                 vertical)
          ELSE edgesLoop_ByX(pts, i + 1, horizontal,
                 Append(vertical,
                        [x |-> p1.x, y1 |-> Min(p1.y, p2.y), y2 |-> Max(p1.y, p2.y)]))

\* mutant: the loop stops before the closing pair last -> first
RECURSIVE edgesLoop_Open(_, _, _, _)
edgesLoop_Open(pts, i, horizontal, vertical) ==
  IF i >= Len(pts) - 1 THEN [horizontalEdges |-> horizontal, verticalEdges |-> vertical]
  ELSE LET p1 == pts[i + 1]
           p2 == pts[((i + 1) % Len(pts)) + 1]
       IN IF p1.y = p2.y
          THEN edgesLoop_Open(pts, i + 1,
                 Append(horizontal,
                        [y |-> p1.y, x1 |-> Min(p1.x, p2.x), x2 |-> Max(p1.x, p2.x)]),
                 vertical)
          ELSE edgesLoop_Open(pts, i + 1, horizontal,
                 Append(vertical,
                        [x |-> p1.x, y1 |-> Min(p1.y, p2.y), y2 |-> Max(p1.y, p2.y)]))

\* the edge loop of part2 from index i (0-based) on
RECURSIVE edgesLoop(_, _, _, _)
edgesLoop(pts, i, horizontal, vertical) ==
  IF i >= Len(pts) THEN [horizontalEdges |-> horizontal, verticalEdges |-> vertical]
  ELSE LET p1 == pts[i + 1]
           p2 == pts[((i + 1) % Len(pts)) + 1]
       IN IF p1.y = p2.y
          THEN edgesLoop(pts, i + 1,
                 Append(horizontal,
                        [y |-> p1.y, x1 |-> Min(p1.x, p2.x), x2 |-> Max(p1.x, p2.x)]),
                 vertical)
          ELSE edgesLoop(pts, i + 1, horizontal,
                 Append(vertical,
                        [x |-> p1.x, y1 |-> Min(p1.y, p2.y), y2 |-> Max(p1.y, p2.y)]))

\* the sample loop of part2 from index i (0-based) on; the samples are kept
\* in half units, so (y + nextY) / 2 is stored as y + nextY
RECURSIVE samplesLoop(_, _, _)
samplesLoop(uniqueY, i, samples) ==
  IF i >= Len(uniqueY) THEN samples
  ELSE LET y == uniqueY[i + 1]
       IN IF i + 1 < Len(uniqueY)
          THEN samplesLoop(uniqueY, i + 1, samples \o << H(y), y + uniqueY[i + 2] >>)
          ELSE samplesLoop(uniqueY, i + 1, Append(samples, H(y)))

\* mutant: the vertex rows are sorted without being deduplicated first
buildYSamples_NoDedup(pts) ==
  samplesLoop(SortNumbers([k \in 1..Len(pts) |-> pts[k].y]), 0, << >>)

buildYSamples(pts) ==
  samplesLoop(SortNumbers(Unique([k \in 1..Len(pts) |-> pts[k].y])), 0, << >>)

\* the pair loop of part2 from the indices i and j (0-based) on
RECURSIVE part2Loop(_, _, _, _, _, _, _, _, _)
part2Loop(pts, horizontal, vertical, samples, i, j, maxArea, cache, hp) ==
  IF i >= Len(pts) THEN maxArea
  ELSE IF j >= Len(pts)
  THEN part2Loop(pts, horizontal, vertical, samples, i + 1, i + 2, maxArea, cache, hp)
  ELSE LET p1 == pts[i + 1]
           p2 == pts[j + 1]
           r == isRectangleValid(p1, p2, samples, pts, vertical, horizontal, cache, hp)
           a == area(p1, p2)
       IN IF ~r.returns THEN NoReturn
          ELSE part2Loop(pts, horizontal, vertical, samples, i, j + 1,
                         IF r.valid /\ a > maxArea THEN a ELSE maxArea,
                         r.coverageCache, r.heap)

\* what part2 returns
part2(pts) ==
  LET built == edgesLoop(pts, 0, << >>, << >>)
  IN part2Loop(pts, built.horizontalEdges, built.verticalEdges, buildYSamples(pts),
               0, 1, 0, EmptyMap, << >>)

\* generatePairs of the visualizer
RECURSIVE generatePairsLoop(_, _, _, _)
generatePairsLoop(n, i, j, pairs) ==
  IF i >= n THEN pairs
  ELSE IF j >= n THEN generatePairsLoop(n, i + 1, i + 2, pairs)
  ELSE generatePairsLoop(n, i, j + 1, Append(pairs, << i, j >>))

generatePairs(n) == generatePairsLoop(n, 0, 1, << >>)

\* ----------------------------------------------------------------- state
None == "none"

VARIABLES
  points,          \* the parsed input, a sequence of points
  pc,              \* where the program is
  run,             \* 1 in the first call of part2, 2 in the second
  answer1,         \* what part1 returned
  horizontalEdges, verticalEdges, ySamples,   \* locals of part2
  coverageCache,   \* the Map of part2: key (half units) -> reference into heap
  heap,            \* the coverage arrays allocated so far
  i, j, maxArea,   \* the pair loop of part2 (0-based indices)
  call,            \* the latest call of isRectangleValid or getCoverageAtY
  valid,           \* what the latest isRectangleValid returned
  examined,        \* the samples that call fetched, in order
  coverage,        \* what the latest direct getCoverageAtY returned (a reference)
  log,             \* the pairs part2 has validated in this run, with the results
  result,          \* what part2 returned
  first,           \* answer and cache contents of an earlier or a second call
  part, autoPlay,  \* props of the visualizer component
  isInView, hasStarted, phase, currentEdgeIndex, collectingFromPoint,
  collectedPairsCount, currentPairIndex, testedPairs, validPairs,
  bestRectangle, currentRectangle, isCurrentValid   \* its useState values

vars == << points, pc, run, answer1, horizontalEdges, verticalEdges, ySamples,
           coverageCache, heap, i, j, maxArea, call, valid, examined, coverage,
           log, result, first, part, autoPlay, isInView, hasStarted, phase,
           currentEdgeIndex, collectingFromPoint, collectedPairsCount,
           currentPairIndex, testedPairs, validPairs, bestRectangle,
           currentRectangle, isCurrentValid >>

locals == << horizontalEdges, verticalEdges, ySamples, coverageCache, heap,
             i, j, maxArea >>

observed == << call, valid, examined, coverage, log >>

\* the state of the visualizer component
component == << part, autoPlay, isInView, hasStarted, phase, currentEdgeIndex,
                collectingFromPoint, collectedPairsCount, currentPairIndex,
                testedPairs, validPairs, bestRectangle, currentRectangle,
                isCurrentValid >>

\* null, and a value that may be null, as a list of no or one element
null == << >>

\* the solver runs with no component mounted
Unmounted ==
  /\ part = None
  /\ autoPlay = FALSE
  /\ isInView = FALSE
  /\ hasStarted = FALSE
  /\ phase = None
  /\ currentEdgeIndex = 0
  /\ collectingFromPoint = 0
  /\ collectedPairsCount = 0
  /\ currentPairIndex = 0
  /\ testedPairs = 0
  /\ validPairs = 0
  /\ bestRectangle = null
  /\ currentRectangle = null
  /\ isCurrentValid = null

NoCall == [fn |-> "none"]

\* the contents of the cache: key -> ranges
Contents(cache, hp) == [k \in DOMAIN cache |-> hp[cache[k]]]

Init ==
  /\ points \in Polygons
  /\ pc = "part1"
  /\ run = 1
  /\ answer1 = None
  /\ horizontalEdges = << >>
  /\ verticalEdges = << >>
  /\ ySamples = << >>
  /\ coverageCache = EmptyMap
  /\ heap = << >>
  /\ i = 0
  /\ j = 0
  /\ maxArea = 0
  /\ call = NoCall
  /\ valid = FALSE
  /\ examined = << >>
  /\ coverage = 0
  /\ log = << >>
  /\ result = None
  /\ first = None
  /\ Unmounted

\* run("Part 1", () => part1(points))
Part1Run ==
  /\ pc = "part1"
  /\ answer1' = part1(points)
  /\ pc' = "edges"
  /\ UNCHANGED << points, run, locals, observed, result, first >>
  /\ UNCHANGED component

\* mutant: the edge lists outlive the call and the edge loop appends to them
BuildEdges_Append ==
  /\ pc = "edges"
  /\ LET built == edgesLoop(points, 0, horizontalEdges, verticalEdges)
     IN /\ horizontalEdges' = built.horizontalEdges
        /\ verticalEdges' = built.verticalEdges
  /\ pc' = "samples"
  /\ UNCHANGED << points, run, answer1, ySamples, coverageCache, heap, i, j, maxArea,
                  observed, result, first >>
  /\ UNCHANGED component

\* part2, lines 156-179: fresh edge lists, filled by the edge loop
BuildEdges ==
  /\ pc = "edges"
  /\ LET built == edgesLoop(points, 0, << >>, << >>)
     IN /\ horizontalEdges' = built.horizontalEdges
        /\ verticalEdges' = built.verticalEdges
  /\ pc' = "samples"
  /\ UNCHANGED << points, run, answer1, ySamples, coverageCache, heap, i, j, maxArea,
                  observed, result, first >>
  /\ UNCHANGED component

\* part2, lines 184-203: the samples, a fresh cache, and the loop variables
BuildYSamples ==
  /\ pc = "samples"
  /\ ySamples' = buildYSamples(points)
  /\ coverageCache' = EmptyMap
  /\ maxArea' = 0
  /\ i' = 0
  /\ j' = 1
  /\ log' = << >>
  /\ pc' = "pairs"
  /\ UNCHANGED << points, run, answer1, horizontalEdges, verticalEdges, heap,
                  call, valid, examined, coverage, result, first >>
  /\ UNCHANGED component

\* part2, lines 204-220: one pass of the inner loop body
ValidatePair ==
  /\ pc = "pairs"
  /\ i < Len(points)
  /\ j < Len(points)
  /\ \E r \in { isRectangleValid(points[i + 1], points[j + 1], ySamples, points,
                                   verticalEdges, horizontalEdges, coverageCache, heap) } :
     LET p1 == points[i + 1]
         p2 == points[j + 1]
         a == area(p1, p2)
     IN /\ r.returns
        /\ call' = [fn |-> "isRectangleValid", p1 |-> p1, p2 |-> p2]
        /\ valid' = r.valid
        /\ examined' = r.examined
        /\ coverageCache' = r.coverageCache
        /\ heap' = r.heap
        /\ maxArea' = IF r.valid /\ a > maxArea THEN a ELSE maxArea
        /\ log' = Append(log, [i |-> i, j |-> j, valid |-> r.valid])
  /\ j' = j + 1
  /\ UNCHANGED << points, pc, run, answer1, horizontalEdges, verticalEdges, ySamples, i,
                  coverage, result, first >>
  /\ UNCHANGED component

\* mutant: the inner loop starts at the outer index itself
NextRow_FromSelf ==
  /\ pc = "pairs"
  /\ i < Len(points)
  /\ j >= Len(points)
  /\ i' = i + 1
  /\ j' = i + 1
  /\ UNCHANGED << points, pc, run, answer1, horizontalEdges, verticalEdges, ySamples,
                  coverageCache, heap, maxArea, observed, result, first >>
  /\ UNCHANGED component

\* part2, lines 202-203: the inner loop is over, the outer loop steps
NextRow ==
  /\ pc = "pairs"
  /\ i < Len(points)
  /\ j >= Len(points)
  /\ i' = i + 1
  /\ j' = i + 2
  /\ UNCHANGED << points, pc, run, answer1, horizontalEdges, verticalEdges, ySamples,
                  coverageCache, heap, maxArea, observed, result, first >>
  /\ UNCHANGED component

\* part2, line 224
Return ==
  /\ pc = "pairs"
  /\ i >= Len(points)
  /\ result' = maxArea
  /\ pc' = "done"
  /\ UNCHANGED << points, run, answer1, locals, observed, first >>
  /\ UNCHANGED component

\* run("Part 2", () => part2(points)) once more, on the same points
Rerun ==
  /\ pc = "done"
  /\ run = 1
  /\ first' = [answer |-> result, cache |-> Contents(coverageCache, heap)]
  /\ run' = 2
  /\ pc' = "edges"
  /\ UNCHANGED << points, answer1, locals, observed, result >>
  /\ UNCHANGED component

Next == Part1Run \/ BuildEdges \/ BuildYSamples \/ ValidatePair \/ NextRow \/ Return

Spec == Init /\ [][Next]_vars

\* the same, with part2 called a second time on the same points
NextTwice == Next \/ Rerun

SpecTwice == Init /\ [][NextTwice]_vars

\* ---------------------------------------------------------------- calls
\* The two functions of the validator called on their own, on the edges and
\* samples part2 has built and with the cache it has created: one or two
\* calls of getCoverageAtY, or one call of isRectangleValid.  Neither function
\* looks at the order of the points or of its two corners, so the polygons
\* are taken in one orientation (first edge horizontal) and the corners as
\* unordered pairs.
ProbeRows == (-1)..(H(MaxY) + 1)

ProbeCorners == { c \in Grid \X Grid : c[1] = c[2] \/ Before(c[1], c[2]) }

InitCalls == Init /\ points[1].y = points[2].y

CallGetCoverageAtY(yy) ==
  /\ pc \in {"pairs", "again"}
  /\ \E got \in { getCoverageAtY(yy, points, verticalEdges, horizontalEdges,
                                  coverageCache, heap) } :
        /\ coverage' = got.coverage
        /\ coverageCache' = got.coverageCache
        /\ heap' = got.heap
  /\ call' = [fn |-> "getCoverageAtY", y |-> yy]
  /\ pc' = IF pc = "pairs" THEN "again" ELSE "called"
  /\ UNCHANGED << points, run, answer1, horizontalEdges, verticalEdges, ySamples,
                  i, j, maxArea, valid, examined, log, result, first >>
  /\ UNCHANGED component

CallIsRectangleValid(p1, p2) ==
  /\ pc = "pairs"
  /\ \E r \in { isRectangleValid(p1, p2, ySamples, points, verticalEdges,
                                   horizontalEdges, coverageCache, heap) } :
        /\ r.returns
        /\ valid' = r.valid
        /\ examined' = r.examined
        /\ coverageCache' = r.coverageCache
        /\ heap' = r.heap
  /\ call' = [fn |-> "isRectangleValid", p1 |-> p1, p2 |-> p2]
  /\ pc' = "called"
  /\ UNCHANGED << points, run, answer1, horizontalEdges, verticalEdges, ySamples,
                  i, j, maxArea, coverage, log, result, first >>
  /\ UNCHANGED component

NextCalls ==
  \/ Part1Run \/ BuildEdges \/ BuildYSamples
  \/ \E yy \in ProbeRows : CallGetCoverageAtY(yy)
  \/ \E c \in ProbeCorners : CallIsRectangleValid(c[1], c[2])

SpecCalls == InitCalls /\ [][NextCalls]_vars

\* the same with calls of isRectangleValid only
NextValidity ==
  \/ Part1Run \/ BuildEdges \/ BuildYSamples
  \/ \E c \in ProbeCorners : CallIsRectangleValid(c[1], c[2])

SpecValidity == InitCalls /\ [][NextValidity]_vars

\* the polygons with their first corner at the origin and their first edge
\* horizontal
InitBoth == InitCalls /\ points[1] = Pt(0, 0)

\* the solver's isRectangleValid and the visualizer's called on the same
\* arguments, each on a cache of its own with the same contents; what the
\* visualizer's returned and left behind is kept in first
CallBothValidators(p1, p2) ==
  /\ pc = "pairs"
  /\ \E r \in { isRectangleValid(p1, p2, ySamples, points, verticalEdges,
                                   horizontalEdges, coverageCache, heap) } :
        /\ r.returns
        /\ valid' = r.valid
        /\ examined' = r.examined
        /\ coverageCache' = r.coverageCache
        /\ heap' = r.heap
  /\ \E v \in { isRectangleValidLinear(p1, p2, ySamples, points, verticalEdges,
                                         horizontalEdges, coverageCache, heap) } :
        first' = [answer |-> v.valid, examined |-> v.examined,
                  cache |-> Contents(v.coverageCache, v.heap)]
  /\ call' = [fn |-> "isRectangleValid", p1 |-> p1, p2 |-> p2]
  /\ pc' = "compared"
  /\ UNCHANGED << points, run, answer1, horizontalEdges, verticalEdges, ySamples,
                  i, j, maxArea, coverage, log, result >>
  /\ UNCHANGED component

NextBoth ==
  \/ Part1Run \/ BuildEdges \/ BuildYSamples
  \/ \E c \in ProbeCorners : CallBothValidators(c[1], c[2])

SpecBoth == InitBoth /\ [][NextBoth]_vars

\* one call of getCoverageAtY on any row, with the cache empty
NextRows ==
  \/ Part1Run \/ BuildEdges \/ BuildYSamples
  \/ \E yy \in ProbeRows : pc = "pairs" /\ CallGetCoverageAtY(yy)

SpecRows == Init /\ [][NextRows]_vars

\* area called on its own, on any two integer points, negative coordinates
\* included
AreaPoints == { Pt(px, py) : px \in (-MaxX)..MaxX, py \in (-MaxY)..MaxY }

InitArea ==
  /\ points = << >>
  /\ pc = "area"
  /\ run = 1
  /\ answer1 = None
  /\ horizontalEdges = << >>
  /\ verticalEdges = << >>
  /\ ySamples = << >>
  /\ coverageCache = EmptyMap
  /\ heap = << >>
  /\ i = 0
  /\ j = 0
  /\ maxArea = 0
  /\ call = NoCall
  /\ valid = FALSE
  /\ examined = << >>
  /\ coverage = 0
  /\ log = << >>
  /\ result = None
  /\ first = None
  /\ Unmounted

CallArea(p1, p2) ==
  /\ pc = "area"
  /\ call' = [fn |-> "area", p1 |-> p1, p2 |-> p2]
  /\ result' = area(p1, p2)
  /\ pc' = "called"
  /\ UNCHANGED << points, run, answer1, locals, valid, examined, coverage, log, first >>
  /\ UNCHANGED component

NextArea == \E p1, p2 \in AreaPoints : CallArea(p1, p2)

SpecArea == InitArea /\ [][NextArea]_vars

\* mergeRanges called on its own, on an array of at most MaxLen ranges with
\* start <= end, in any order, and then on what it returned
MergeInputs == { [start |-> a, end |-> b] : a \in 0..MaxX, b \in 0..MaxX }

MergeRanges == { r \in MergeInputs : r.start <= r.end }

MergeLists == UNION { [1..n -> MergeRanges] : n \in 0..MaxLen }

InitMerge ==
  /\ points = << >>
  /\ pc = "merge"
  /\ run = 1
  /\ answer1 = None
  /\ horizontalEdges = << >>
  /\ verticalEdges = << >>
  /\ ySamples = << >>
  /\ coverageCache = EmptyMap
  /\ heap \in { << ranges >> : ranges \in MergeLists }
  /\ i = 0
  /\ j = 0
  /\ maxArea = 0
  /\ call = NoCall
  /\ valid = FALSE
  /\ examined = << >>
  /\ coverage = 0
  /\ log = << >>
  /\ result = << >>
  /\ first = << >>
  /\ Unmounted

\* mergeRanges called on the array heap[1], which it sorts in place
CallMergeRanges ==
  /\ pc = "merge"
  /\ call' = [fn |-> "mergeRanges", ranges |-> heap[1]]
  /\ result' = mergeRanges(heap[1])
  /\ heap' = IF Len(heap[1]) = 0 THEN heap ELSE << SortByStart(heap[1]) >>
  /\ pc' = "merged"
  /\ UNCHANGED << points, run, answer1, horizontalEdges, verticalEdges, ySamples,
                  coverageCache, i, j, maxArea, valid, examined, coverage, log, first >>
  /\ UNCHANGED component

\* mergeRanges called on the array it returned
CallMergeRangesAgain ==
  /\ pc = "merged"
  /\ first' = result
  /\ result' = mergeRanges(result)
  /\ pc' = "remerged"
  /\ UNCHANGED << points, run, answer1, locals, call, valid, examined, coverage, log >>
  /\ UNCHANGED component

NextMerge ==
  \/ CallMergeRanges
  \/ CallMergeRangesAgain

SpecMerge == InitMerge /\ [][NextMerge]_vars

\* part1 and part2 run on any list of points: every list of at most MaxLen
\* points with coordinates in 0..MaxCoord (the empty list, single points,
\* repeated points, diagonal neighbours), and the polygons
AnyPoints == { Pt(px, py) : px \in 0..MaxCoord, py \in 0..MaxCoord }

AnyLists == UNION { [1..n -> AnyPoints] : n \in 0..MaxLen }

InitAny ==
  /\ points \in AnyLists \cup Polygons
  /\ pc = "part1"
  /\ run = 1
  /\ answer1 = None
  /\ horizontalEdges = << >>
  /\ verticalEdges = << >>
  /\ ySamples = << >>
  /\ coverageCache = EmptyMap
  /\ heap = << >>
  /\ i = 0
  /\ j = 0
  /\ maxArea = 0
  /\ call = NoCall
  /\ valid = FALSE
  /\ examined = << >>
  /\ coverage = 0
  /\ log = << >>
  /\ result = None
  /\ first = None
  /\ Unmounted

SpecAny == InitAny /\ [][Next]_vars

\* ----------------------------------------------------------- the visualizer
\* the Day9MovieTheater component. A step is a timer callback, an event
\* handler, a prop change or the "done" branch of an effect, together with the
\* render that follows it. The effects of a render run in the order they are
\* declared and read the state of that render; the state updates queued are
\* applied in the order they were queued.

\* useMemo(() => generatePairs(points.length), [points.length])
allPairs == generatePairs(Len(points))

\* useState<Phase>(part === "part2" ? "building_polygon" : "collecting_pairs")
startPhase(p) == IF p = "part2" THEN "building_polygon" ELSE "collecting_pairs"

\* the useMemo values that follow the points: buildEdges and the samples
Memoized(pts) ==
  LET built == edgesLoop(pts, 0, << >>, << >>)
  IN /\ horizontalEdges' = built.horizontalEdges
     /\ verticalEdges' = built.verticalEdges
     /\ ySamples' = buildYSamples(pts)

\* the variables of the solver, which the component does not have
solver == << pc, run, answer1, i, j, maxArea, call, valid, examined, coverage, log,
            result, first >>

\* the longest of the point lists that are no polygons
MaxShort == 2

\* the inputs of the component: the short lists of points (the empty list, a
\* single point, repeated points, diagonal neighbours), the grid polygons with
\* their first corner at the origin, and the three named polygons
ComponentInputs ==
  { pts \in AnyLists : Len(pts) <= MaxShort }
    \cup { pts \in GridPolygons : pts[1] = Pt(0, 0) }
    \cup {Example, Square10, Notched}

\* the component after its first render and the effects of that render (the
\* coverage cache, filled by polygonInterior during the render, is cleared by
\* resetState in the effect that follows)
InitComponent ==
  /\ points \in ComponentInputs
  /\ part \in {"part1", "part2"}
  /\ autoPlay \in BOOLEAN
  /\ pc = "component"
  /\ run = 1
  /\ answer1 = None
  /\ horizontalEdges = edgesLoop(points, 0, << >>, << >>).horizontalEdges
  /\ verticalEdges = edgesLoop(points, 0, << >>, << >>).verticalEdges
  /\ ySamples = buildYSamples(points)
  /\ coverageCache = EmptyMap
  /\ heap = << >>
  /\ i = 0
  /\ j = 0
  /\ maxArea = 0
  /\ call = NoCall
  /\ valid = FALSE
  /\ examined = << >>
  /\ coverage = 0
  /\ log = << >>
  /\ result = None
  /\ first = None
  /\ isInView = FALSE
  /\ hasStarted = FALSE
  /\ phase = startPhase(part)
  /\ currentEdgeIndex = 0
  /\ collectingFromPoint = 0
  /\ collectedPairsCount = 0
  /\ currentPairIndex = 0
  /\ testedPairs = 0
  /\ validPairs = 0
  /\ bestRectangle = null
  /\ currentRectangle = null
  /\ isCurrentValid = null

\* no effect is about to take its "done" branch: an effect runs right after
\* the render that changed its dependencies, before any event or prop change
Settled ==
  ~(/\ isInView /\ autoPlay
    /\ \/ phase = "collecting_pairs" /\ collectingFromPoint >= Len(points) - 1
       \/ phase = "building_polygon" /\ currentEdgeIndex >= Len(points)
       \/ phase = "scanning" /\ currentPairIndex >= Len(allPairs))

\* mutant: resetState leaves the coverage cache as it is
resetState_KeepCache(p) ==
  /\ phase' = startPhase(p)
  /\ currentEdgeIndex' = 0
  /\ collectingFromPoint' = 0
  /\ collectedPairsCount' = 0
  /\ currentPairIndex' = 0
  /\ testedPairs' = 0
  /\ validPairs' = 0
  /\ bestRectangle' = null
  /\ currentRectangle' = null
  /\ isCurrentValid' = null
  /\ UNCHANGED << coverageCache, heap >>

\* resetState, with p the part prop it reads
resetState(p) ==
  /\ phase' = startPhase(p)
  /\ currentEdgeIndex' = 0
  /\ collectingFromPoint' = 0
  /\ collectedPairsCount' = 0
  /\ currentPairIndex' = 0
  /\ testedPairs' = 0
  /\ validPairs' = 0
  /\ bestRectangle' = null
  /\ currentRectangle' = null
  /\ isCurrentValid' = null
  /\ coverageCache' = EmptyMap
  /\ heap' = << >>

\* the IntersectionObserver callback, on an entry that is intersecting
Observe ==
  /\ Settled
  /\ ~hasStarted
  /\ isInView' = TRUE
  /\ hasStarted' = TRUE
  /\ UNCHANGED << points, horizontalEdges, verticalEdges, ySamples, coverageCache, heap,
                  part, autoPlay, phase, currentEdgeIndex, collectingFromPoint,
                  collectedPairsCount, currentPairIndex, testedPairs, validPairs,
                  bestRectangle, currentRectangle, isCurrentValid >>
  /\ UNCHANGED solver

handleRestart ==
  /\ Settled
  /\ resetState(part)
  /\ hasStarted' = TRUE
  /\ isInView' = TRUE
  /\ UNCHANGED << points, horizontalEdges, verticalEdges, ySamples, part, autoPlay >>
  /\ UNCHANGED solver

\* the part prop changes: the render, and the effect that calls resetState
ChangePart(p) ==
  /\ Settled
  /\ p # part
  /\ part' = p
  /\ resetState(p)
  /\ UNCHANGED << points, horizontalEdges, verticalEdges, ySamples, autoPlay, isInView,
                  hasStarted >>
  /\ UNCHANGED solver

\* the inputs the puzzleInput prop is changed to
OtherInputs == {<< >>, Square10, Notched}

\* the phase after the effects of the render that follows a change of
\* puzzleInput to pts: resetState queues the start phase, and then the
\* collecting, building and scanning effects, which depend on points, run on
\* the phase and indices of that render and may queue a phase of their own
phaseAfterInput(pts) ==
  IF isInView /\ autoPlay /\ phase = "collecting_pairs"
       /\ collectingFromPoint >= Len(pts) - 1
  THEN "scanning"
  ELSE IF isInView /\ autoPlay /\ phase = "building_polygon" /\ currentEdgeIndex >= Len(pts)
  THEN "scanning"
  ELSE IF isInView /\ autoPlay /\ phase = "scanning"
            /\ currentPairIndex >= Len(generatePairs(Len(pts)))
  THEN "complete"
  ELSE startPhase(part)

\* the puzzleInput prop changes: the render with its useMemo values, and the
\* effects of that render, resetState first
ChangeInput(pts) ==
  /\ Settled
  /\ pts # points
  /\ points' = pts
  /\ Memoized(pts)
  /\ phase' = phaseAfterInput(pts)
  /\ currentEdgeIndex' = 0
  /\ collectingFromPoint' = 0
  /\ collectedPairsCount' = 0
  /\ currentPairIndex' = 0
  /\ testedPairs' = 0
  /\ validPairs' = 0
  /\ bestRectangle' = null
  /\ currentRectangle' = null
  /\ isCurrentValid' = null
  /\ coverageCache' = EmptyMap
  /\ heap' = << >>
  /\ UNCHANGED << part, autoPlay, isInView, hasStarted >>
  /\ UNCHANGED solver

\* the autoPlay prop changes
ChangeAutoPlay ==
  /\ Settled
  /\ autoPlay' = ~autoPlay
  /\ UNCHANGED << points, horizontalEdges, verticalEdges, ySamples, coverageCache, heap,
                  part, isInView, hasStarted, phase, currentEdgeIndex,
                  collectingFromPoint, collectedPairsCount, currentPairIndex,
                  testedPairs, validPairs, bestRectangle, currentRectangle,
                  isCurrentValid >>
  /\ UNCHANGED solver

\* the collecting effect when every point but the last has been stepped through
CollectingDone ==
  /\ isInView /\ phase = "collecting_pairs" /\ autoPlay
  /\ collectingFromPoint >= Len(points) - 1
  /\ phase' = "scanning"
  /\ UNCHANGED << points, horizontalEdges, verticalEdges, ySamples, coverageCache, heap,
                  part, autoPlay, isInView, hasStarted, currentEdgeIndex,
                  collectingFromPoint, collectedPairsCount, currentPairIndex,
                  testedPairs, validPairs, bestRectangle, currentRectangle,
                  isCurrentValid >>
  /\ UNCHANGED solver

\* the timer of the collecting effect
CollectingStep ==
  /\ isInView /\ phase = "collecting_pairs" /\ autoPlay
  /\ collectingFromPoint < Len(points) - 1
  /\ collectedPairsCount' = collectedPairsCount + (Len(points) - 1 - collectingFromPoint)
  /\ collectingFromPoint' = collectingFromPoint + 1
  /\ UNCHANGED << points, horizontalEdges, verticalEdges, ySamples, coverageCache, heap,
                  part, autoPlay, isInView, hasStarted, phase, currentEdgeIndex,
                  currentPairIndex, testedPairs, validPairs, bestRectangle,
                  currentRectangle, isCurrentValid >>
  /\ UNCHANGED solver

\* the building effect when every edge has been stepped through
BuildingDone ==
  /\ isInView /\ phase = "building_polygon" /\ autoPlay
  /\ currentEdgeIndex >= Len(points)
  /\ phase' = "scanning"
  /\ UNCHANGED << points, horizontalEdges, verticalEdges, ySamples, coverageCache, heap,
                  part, autoPlay, isInView, hasStarted, currentEdgeIndex,
                  collectingFromPoint, collectedPairsCount, currentPairIndex,
                  testedPairs, validPairs, bestRectangle, currentRectangle,
                  isCurrentValid >>
  /\ UNCHANGED solver

\* the timer of the building effect
BuildingStep ==
  /\ isInView /\ phase = "building_polygon" /\ autoPlay
  /\ currentEdgeIndex < Len(points)
  /\ currentEdgeIndex' = currentEdgeIndex + 1
  /\ UNCHANGED << points, horizontalEdges, verticalEdges, ySamples, coverageCache, heap,
                  part, autoPlay, isInView, hasStarted, phase, collectingFromPoint,
                  collectedPairsCount, currentPairIndex, testedPairs, validPairs,
                  bestRectangle, currentRectangle, isCurrentValid >>
  /\ UNCHANGED solver

\* the main animation loop when every pair has been processed
ScanningDone ==
  /\ isInView /\ phase = "scanning" /\ autoPlay
  /\ currentPairIndex >= Len(allPairs)
  /\ phase' = "complete"
  /\ UNCHANGED << points, horizontalEdges, verticalEdges, ySamples, coverageCache, heap,
                  part, autoPlay, isInView, hasStarted, currentEdgeIndex,
                  collectingFromPoint, collectedPairsCount, currentPairIndex,
                  testedPairs, validPairs, bestRectangle, currentRectangle,
                  isCurrentValid >>
  /\ UNCHANGED solver

\* the rectangles are kept as records of their corners and area
Rect(p1, p2, rectArea) == [p1 |-> p1, p2 |-> p2, area |-> rectArea]

\* mutant: the first valid rectangle stays the best
newBest_FirstOnly(best, p1, p2, rectArea, isValid) ==
  IF isValid /\ best = null THEN << Rect(p1, p2, rectArea) >> ELSE best

\* newBest after a pair, from newBest before it
newBest(best, p1, p2, rectArea, isValid) ==
  IF isValid /\ (best = null \/ rectArea > best[1].area)
  THEN << Rect(p1, p2, rectArea) >>
  ELSE best

\* the scan of the animation loop over ySamples, which is that of the
\* visualizer's isRectangleValid; in part1 every pair is valid
scanPair(p1, p2) ==
  IF part = "part2"
  THEN isRectangleValidLinear(p1, p2, ySamples, points, verticalEdges, horizontalEdges,
                              coverageCache, heap)
  ELSE [returns |-> TRUE, valid |-> TRUE, coverageCache |-> coverageCache, heap |-> heap,
        examined |-> << >>]

\* the timer of the main animation loop: a batch of batchSize = 1 pairs
ScanningStep ==
  /\ isInView /\ phase = "scanning" /\ autoPlay
  /\ currentPairIndex < Len(allPairs)
  /\ LET pair == allPairs[currentPairIndex + 1]
         p1 == points[pair[1] + 1]
         p2 == points[pair[2] + 1]
     IN \E r \in { scanPair(p1, p2) } :
          /\ coverageCache' = r.coverageCache
          /\ heap' = r.heap
          /\ currentRectangle' = << [p1 |-> p1, p2 |-> p2] >>
          /\ isCurrentValid' = << r.valid >>
          /\ validPairs' = IF r.valid THEN validPairs + 1 ELSE validPairs
          /\ bestRectangle' = newBest(bestRectangle, p1, p2, area(p1, p2), r.valid)
  /\ testedPairs' = testedPairs + 1
  /\ currentPairIndex' = currentPairIndex + 1
  /\ UNCHANGED << points, horizontalEdges, verticalEdges, ySamples, part, autoPlay,
                  isInView, hasStarted, phase, currentEdgeIndex, collectingFromPoint,
                  collectedPairsCount >>
  /\ UNCHANGED solver

NextComponent ==
  \/ Observe
  \/ handleRestart
  \/ \E p \in {"part1", "part2"} : ChangePart(p)
  \/ \E pts \in OtherInputs : ChangeInput(pts)
  \/ ChangeAutoPlay
  \/ CollectingDone
  \/ CollectingStep
  \/ BuildingDone
  \/ BuildingStep
  \/ ScanningDone
  \/ ScanningStep

SpecComponent == InitComponent /\ [][NextComponent]_vars

\* ------------------------------------------------------------- geometry
\* The closed polygon, defined from the points alone.  (a, b) is the point
\* (a/2, b/2): half units on both axes.  A closed rectangle with integer
\* corners lies in the closed polygon iff all its half-unit points do, since
\* the polygon is a union of closed unit cells.
OnBoundary(a, b, pts) ==
  \E k \in 1..Len(pts) :
    LET p == pts[k]
        q == pts[(k % Len(pts)) + 1]
    IN /\ H(Min(p.x, q.x)) <= a /\ a <= H(Max(p.x, q.x))
       /\ H(Min(p.y, q.y)) <= b /\ b <= H(Max(p.y, q.y))

\* the boundary edges a ray from (a, b) to the right crosses (half-open rule)
CrossedRight(a, b, pts) ==
  { k \in 1..Len(pts) :
      LET p == pts[k]
          q == pts[(k % Len(pts)) + 1]
      IN p.x = q.x /\ H(p.x) > a /\ H(Min(p.y, q.y)) <= b /\ b < H(Max(p.y, q.y)) }

InClosedPolygon(a, b, pts) ==
  OnBoundary(a, b, pts) \/ Cardinality(CrossedRight(a, b, pts)) % 2 = 1

RectInPolygon(p1, p2, pts) ==
  \A a \in H(Min(p1.x, p2.x))..H(Max(p1.x, p2.x)) :
    \A b \in H(Min(p1.y, p2.y))..H(Max(p1.y, p2.y)) : InClosedPolygon(a, b, pts)

Vertices(pts) == { pts[k] : k \in 1..Len(pts) }

\* --------------------------------------------------------------- claims
\* C1: whenever isRectangleValid has been called on two vertices of the
\* polygon, it returned true iff the closed rectangle they span lies in the
\* closed polygon.
C1_ValidIffContained ==
  (call.fn = "isRectangleValid" /\ {call.p1, call.p2} \subseteq Vertices(points))
    => (valid <=> RectInPolygon(call.p1, call.p2, points))

\* C1 witness: a solve of an 8-corner polygon has accepted a rectangle of
\* positive width and height and rejected another one.
C1_Witness ==
  /\ pc = "done"
  /\ Len(points) = MaxPoints
  /\ \E m, n \in 1..Len(log) :
       /\ log[m].valid /\ ~log[n].valid
       /\ \A e \in {log[m], log[n]} :
            /\ points[e.i + 1].x # points[e.j + 1].x
            /\ points[e.i + 1].y # points[e.j + 1].y

MaxOf(S) == CHOOSE m \in S : \A v \in S : v <= m

\* the unordered pairs of indices (0-based) of a list of n points
Pairs(n) == { << a, b >> \in (0..(n - 1)) \X (0..(n - 1)) : a < b }

\* C2: part2 returns the largest area among the pairs isRectangleValid
\* accepted, 0 if it accepted none, and has called it once for each of the
\* n(n-1)/2 unordered pairs.
C2_MaxOverValidPairs ==
  pc = "done" =>
    LET n == Len(points)
        accepted == { m \in 1..Len(log) : log[m].valid }
    IN /\ result = MaxOf({ area(points[log[m].i + 1], points[log[m].j + 1]) : m \in accepted }
                           \cup {0})
       /\ 2 * Len(log) = n * (n - 1)
       /\ { << log[m].i, log[m].j >> : m \in 1..Len(log) } = Pairs(n)

\* C2 witness: a solve has ended in which some pairs were accepted, others
\* rejected, and a rejected pair has a larger area than the answer.
C2_Witness ==
  /\ pc = "done"
  /\ \E m, n \in 1..Len(log) :
       /\ log[m].valid /\ ~log[n].valid
       /\ area(points[log[n].i + 1], points[log[n].j + 1]) > result

\* C3: on the example polygon part2 returns 24.
C3_ExampleIs24 == (pc = "done" /\ points = Example) => result = 24

\* C3 witness: the solve of the example polygon has ended.
C3_Witness == pc = "done" /\ points = Example /\ Len(log) = 28

\* C4: part1 returns the largest area over all unordered pairs of points, and
\* 50 on the example.
C4_Part1Max ==
  pc # "part1" =>
    /\ answer1 = MaxOf({ area(points[p[1] + 1], points[p[2] + 1]) : p \in Pairs(Len(points)) })
    /\ points = Example => answer1 = 50

\* C4 witness: part1 has run on the example.
C4_Witness == points = Example /\ pc = "edges" /\ answer1 = 50

\* a polygon given by the four corners of a rectangle, in cyclic order
PlainRectangle(pts) ==
  /\ Len(pts) = 4
  /\ \A k \in 1..4 : Aligned(pts[k], pts[(k % 4) + 1])
  /\ pts[1].x # pts[3].x /\ pts[1].y # pts[3].y
  /\ pts[2].x # pts[4].x /\ pts[2].y # pts[4].y

\* C5: on a plain rectangle part2 returns the rectangle's own inclusive area,
\* found at a pair of opposite corners; 121 on the square of side 10.
C5_PlainRectangle ==
  (pc = "done" /\ PlainRectangle(points)) =>
    /\ result = area(points[1], points[3])
    /\ \E m \in 1..Len(log) :
         /\ log[m].valid
         /\ << log[m].i, log[m].j >> \in { << 0, 2 >>, << 1, 3 >> }
         /\ area(points[log[m].i + 1], points[log[m].j + 1]) = result
    /\ points = Square10 => result = 121

\* C5 witness: the solve of the square of side 10 has ended.
C5_Witness == pc = "done" /\ points = Square10 /\ PlainRectangle(points) /\ result = 121

VertexRows(pts) == { pts[k].y : k \in 1..Len(pts) }

SampleRows(samples) == { samples[k] : k \in 1..Len(samples) }

InYRange(p, pts) ==
  \E lo, hi \in VertexRows(pts) : lo <= p.y /\ p.y <= hi

\* C6 as claimed: isRectangleValid decides containment for corners on any
\* rows of the polygon's y-range.
C6_AnyCornerRows ==
  (call.fn = "isRectangleValid" /\ InYRange(call.p1, points) /\ InYRange(call.p2, points))
    => (valid <=> RectInPolygon(call.p1, call.p2, points))

\* C6 amended: isRectangleValid decides containment for corners whose rows
\* are both elements of ySamples (x arbitrary).
C6_SampleRowCorners ==
  (call.fn = "isRectangleValid"
     /\ {H(call.p1.y), H(call.p2.y)} \subseteq SampleRows(ySamples))
    => (valid <=> RectInPolygon(call.p1, call.p2, points))

\* C6 witness: a rectangle of positive width and height with a corner on a
\* midpoint row, off every vertex row and off every vertex column, has been
\* rejected although the rows of its corners are in ySamples.
C6_Witness ==
  /\ call.fn = "isRectangleValid"
  /\ {H(call.p1.y), H(call.p2.y)} \subseteq SampleRows(ySamples)
  /\ ~(call.p1.y \in VertexRows(points))
  /\ call.p1.x # call.p2.x /\ call.p1.y # call.p2.y
  /\ \A k \in 1..Len(points) : points[k].x # call.p1.x
  /\ ~valid

Rows(cache) == DOMAIN cache

\* the ranges are in ascending order of start and any two neighbours are at
\* least gap apart (end + gap <= next start)
Separated(ranges, gap) ==
  \A k \in 1..(Len(ranges) - 1) :
    /\ ranges[k].start <= ranges[k + 1].start
    /\ ranges[k].end + gap <= ranges[k + 1].start

\* C7 as claimed: every coverage set getCoverageAtY has returned is sorted by
\* start and has no neighbours with end >= next start - 1.
C7_NoAdjacentRanges == \A m \in 1..Len(heap) : Separated(heap[m], 2)

\* C7 amended: every coverage set getCoverageAtY has returned is sorted by
\* start and has no neighbours with end >= next start (overlapping and
\* touching ranges are merged, ranges one unit apart are not).
C7_NoTouchingRanges == \A m \in 1..Len(heap) : Separated(heap[m], 1)

\* C7 witness: the cache holds a vertex row and an off-vertex row with two
\* ranges each, one unit apart.
C7_Witness ==
  \E v, w \in Rows(coverageCache) :
    /\ \E k \in 1..Len(points) : H(points[k].y) = v
    /\ \A k \in 1..Len(points) : H(points[k].y) # w
    /\ \A y \in {v, w} :
         LET ranges == heap[coverageCache[y]]
         IN Len(ranges) = 2 /\ ranges[1].end + 1 = ranges[2].start

\* the step is a direct call of getCoverageAtY
IsCoverageCall == pc \in {"pairs", "again"} /\ pc' # pc /\ call'.fn = "getCoverageAtY"

\* C8: a call getCoverageAtY(y) whose key is in the cache returns the array
\* stored under y, empty or not, and allocates and stores nothing; a call
\* whose key is not in the cache stores the array it returns under y.
C8_SecondCallSameObject ==
  [][IsCoverageCall =>
       IF call'.y \in Rows(coverageCache)
       THEN /\ coverage' = coverageCache[call'.y]
            /\ heap' = heap
            /\ coverageCache' = coverageCache
       ELSE /\ call'.y \in Rows(coverageCache')
            /\ coverageCache'[call'.y] = coverage'
            /\ \A y \in Rows(coverageCache) : coverageCache'[y] = coverageCache[y]]_vars

\* C8 witness: getCoverageAtY has been called twice on one row outside the
\* polygon; one empty array was allocated and both calls returned it.
C8_Witness ==
  /\ pc = "called"
  /\ call.fn = "getCoverageAtY"
  /\ Len(heap) = 1
  /\ heap[1] = << >>
  /\ Rows(coverageCache) = {call.y}
  /\ coverage = coverageCache[call.y]

\* C9: in a solve the cache only grows: every key stays, with the same array,
\* and the array keeps its contents.
C9_CacheAppendOnly ==
  [][\A y \in Rows(coverageCache) :
       /\ y \in Rows(coverageCache')
       /\ coverageCache'[y] = coverageCache[y]
       /\ heap'[coverageCache'[y]] = heap[coverageCache[y]]]_vars

\* C9 witness: a solve has ended with five rows in the cache, after calls
\* that found their rows cached.
C9_Witness ==
  /\ pc = "done"
  /\ Cardinality(Rows(coverageCache)) = 5
  /\ Len(heap) = 5
  /\ Len(log) > 5

\* C10: a second part2 on the same points returns the same answer and leaves
\* a cache with the same keys and equal ranges under every key.
C10_Idempotent ==
  (pc = "done" /\ run = 2) =>
    /\ result = first.answer
    /\ Contents(coverageCache, heap) = first.cache

\* C10 witness: the second solve of an 8-corner polygon has ended with a
\* positive answer and a cache of at least three rows.
C10_Witness ==
  /\ pc = "done"
  /\ run = 2
  /\ Len(points) = MaxPoints
  /\ result > 0
  /\ Cardinality(Rows(first.cache)) >= 3

\* every half-unit point strictly inside the rectangle [a, b] x [c, d] is
\* outside the closed polygon
OutsideWithin(a, b, c, d, pts) ==
  \A aa \in (H(a) + 1)..(H(b) - 1) :
    \A bb \in (H(c) + 1)..(H(d) - 1) : ~InClosedPolygon(aa, bb, pts)

\* the segment [a, b] x [c, d] (a = b or c = d) runs along the boundary
AlongBoundary(a, b, c, d, pts) ==
  \A aa \in H(a)..H(b) : \A bb \in H(c)..H(d) : OnBoundary(aa, bb, pts)

IsVertex(px, py, pts) == Pt(px, py) \in Vertices(pts)

\* [a, b] x [c, d] is a rectangular concavity that opens upwards or downwards:
\* its floor joins two corners of the polygon, its two walls and its floor
\* are boundary, its inside is outside the polygon, and it reaches to the
\* end of the shorter wall, a corner of the polygon
NotchUpDown(a, b, c, d, pts) ==
  /\ a < b /\ c < d
  /\ \/ /\ IsVertex(a, c, pts) /\ IsVertex(b, c, pts)
        /\ IsVertex(a, d, pts) \/ IsVertex(b, d, pts)
        /\ AlongBoundary(a, b, c, c, pts)
     \/ /\ IsVertex(a, d, pts) /\ IsVertex(b, d, pts)
        /\ IsVertex(a, c, pts) \/ IsVertex(b, c, pts)
        /\ AlongBoundary(a, b, d, d, pts)
  /\ AlongBoundary(a, a, c, d, pts)
  /\ AlongBoundary(b, b, c, d, pts)
  /\ OutsideWithin(a, b, c, d, pts)

\* the same for a concavity that opens to the left or to the right
NotchSideways(a, b, c, d, pts) ==
  /\ a < b /\ c < d
  /\ \/ /\ IsVertex(a, c, pts) /\ IsVertex(a, d, pts)
        /\ IsVertex(b, c, pts) \/ IsVertex(b, d, pts)
        /\ AlongBoundary(a, a, c, d, pts)
     \/ /\ IsVertex(b, c, pts) /\ IsVertex(b, d, pts)
        /\ IsVertex(a, c, pts) \/ IsVertex(a, d, pts)
        /\ AlongBoundary(b, b, c, d, pts)
  /\ AlongBoundary(a, b, c, c, pts)
  /\ AlongBoundary(a, b, d, d, pts)
  /\ OutsideWithin(a, b, c, d, pts)

\* the rectangle spanned by p1 and p2 is the footprint of a notch
IsNotch(p1, p2, pts) ==
  LET a == Min(p1.x, p2.x)
      b == Max(p1.x, p2.x)
      c == Min(p1.y, p2.y)
      d == Max(p1.y, p2.y)
  IN NotchUpDown(a, b, c, d, pts) \/ NotchSideways(a, b, c, d, pts)

\* the widths (distance of the two walls) of the notches of which the
\* rectangle spanned by p1 and p2 is the footprint made one unit narrower
NarrowedFrom(p1, p2, pts) ==
  LET a == Min(p1.x, p2.x)
      b == Max(p1.x, p2.x)
      c == Min(p1.y, p2.y)
      d == Max(p1.y, p2.y)
  IN { b + 1 - a : w \in { w \in {<< a - 1, b >>, << a, b + 1 >>} :
                             NotchUpDown(w[1], w[2], c, d, pts) } }
       \cup { d + 1 - c : w \in { w \in {<< c - 1, d >>, << c, d + 1 >>} :
                                    NotchSideways(a, b, w[1], w[2], pts) } }

\* C11 as claimed: isRectangleValid rejects the footprint of a notch and
\* accepts the footprint made one unit narrower.
C11_NarrowerAccepted ==
  call.fn = "isRectangleValid" =>
    /\ IsNotch(call.p1, call.p2, points) => ~valid
    /\ NarrowedFrom(call.p1, call.p2, points) # {} => valid

\* C11 amended: isRectangleValid rejects the footprint of a notch; the
\* footprint made one unit narrower is accepted when the notch is one unit
\* wide (what is left is a stretch of its wall) and rejected when it is wider.
C11_NarrowerOfUnitNotch ==
  call.fn = "isRectangleValid" =>
    /\ IsNotch(call.p1, call.p2, points) => ~valid
    /\ \A w \in NarrowedFrom(call.p1, call.p2, points) : valid <=> w = 1

\* C11 witness: the wall of a notch one unit wide and two units deep, which
\* is that notch made one unit narrower, has been accepted.
C11_Witness ==
  /\ call.fn = "isRectangleValid"
  /\ NarrowedFrom(call.p1, call.p2, points) = {1}
  /\ Abs(call.p1.y - call.p2.y) = 2
  /\ call.p1.x = call.p2.x
  /\ valid

\* the log entries of the pairs that are the two ends of an edge of the
\* polygon: consecutive points, and the last point with the first
EdgePairs(lg, n) ==
  { m \in 1..Len(lg) : lg[m].j = lg[m].i + 1 \/ (lg[m].i = 0 /\ lg[m].j = n - 1) }

\* C12: on a simple rectilinear polygon part2 returns a positive integer, and
\* isRectangleValid accepts the two end points of every edge of the polygon.
C12_EdgesAccepted ==
  pc = "done" =>
    /\ result \in Nat /\ result > 0
    /\ Cardinality(EdgePairs(log, Len(points))) = Len(points)
    /\ \A m \in EdgePairs(log, Len(points)) : log[m].valid

\* C12 witness: a solve of an 8-corner polygon has ended; the edges along the
\* top and the bottom row of the polygon were accepted, a pair that is no
\* edge was rejected.
C12_Witness ==
  /\ pc = "done"
  /\ Len(points) = MaxPoints
  /\ \E m, n \in EdgePairs(log, Len(points)) :
       /\ log[m].valid /\ log[n].valid
       /\ points[log[m].i + 1].y = points[log[m].j + 1].y
       /\ points[log[n].i + 1].y = points[log[n].j + 1].y
       /\ \A k \in 1..Len(points) :
            points[log[m].i + 1].y <= points[k].y /\ points[k].y <= points[log[n].i + 1].y
  /\ \E m \in 1..Len(log) : ~(m \in EdgePairs(log, Len(points))) /\ ~log[m].valid

\* C13: area(p1, p2) is the number of lattice points of the rectangle spanned
\* by p1 and p2, (|dx| + 1) * (|dy| + 1); it is at least 1, it is 1 when
\* p1 = p2, and it is the same for the two points in the other order.
C13_AreaSymmetric ==
  call.fn = "area" =>
    /\ result = Cardinality(SegPts(call.p1, call.p2))
    /\ result >= 1
    /\ call.p1 = call.p2 => result = 1
    /\ result = area(call.p2, call.p1)

\* C13 witness: area has been called on two points with p1 to the right of
\* and below p2, one of them with negative coordinates.
C13_Witness ==
  /\ call.fn = "area"
  /\ call.p1.x > call.p2.x /\ call.p1.y < call.p2.y
  /\ call.p2.x < 0 /\ call.p1.y < 0
  /\ result = 12

\* the step is a call of isRectangleValid from the pair loop, with the calls
\* of getCoverageAtY it makes
IsValidityCall == pc = "pairs" /\ log' # log

\* C14: a call of isRectangleValid, with its calls of getCoverageAtY, leaves
\* the points, the two edge lists and ySamples as they were, leaves every
\* coverage array allocated before it with the ranges it had, and leaves
\* every key of the cache with the array it had: all it does to the state is
\* to add arrays and cache entries.
C14_OneWay ==
  [][IsValidityCall =>
       /\ points' = points
       /\ horizontalEdges' = horizontalEdges
       /\ verticalEdges' = verticalEdges
       /\ ySamples' = ySamples
       /\ Len(heap') >= Len(heap)
       /\ \A m \in 1..Len(heap) : heap'[m] = heap[m]
       /\ \A y \in Rows(coverageCache) :
            y \in Rows(coverageCache') /\ coverageCache'[y] = coverageCache[y]]_vars

\* C14 witness: the second call of a solve has found its first row in the
\* cache, where the first call had put it, and has added two rows or more.
C14_Witness ==
  /\ pc = "pairs"
  /\ Len(log) = 2
  /\ points[1].y = points[2].y
  /\ Len(examined) >= 3
  /\ examined[1] = H(points[1].y)
  /\ Len(heap) = Len(examined)
  /\ Cardinality(Rows(coverageCache)) = Len(heap)

\* C15 as claimed: a call of isRectangleValid leaves the cache as it was.
C15_CacheUntouched ==
  [][IsValidityCall => coverageCache' = coverageCache /\ heap' = heap]_vars

\* C15 amended: a call of isRectangleValid leaves every entry of the cache as
\* it was and adds an entry for each sample it examined that had none; it
\* leaves the cache as it was when all the samples it examined had one.
C15_CacheOnlyFilled ==
  [][IsValidityCall =>
       /\ Rows(coverageCache') = Rows(coverageCache) \cup SampleRows(examined')
       /\ \A y \in Rows(coverageCache) : coverageCache'[y] = coverageCache[y]
       /\ SampleRows(examined') \subseteq Rows(coverageCache)
            => (coverageCache' = coverageCache /\ heap' = heap)]_vars

\* C15 witness: the first call of a solve went along a vertical edge and
\* cached its rows; the second call, on a rectangle of the same rows, examined
\* them all and added nothing.
C15_Witness ==
  /\ pc = "pairs"
  /\ Len(log) = 2
  /\ points[1].x = points[2].x
  /\ valid
  /\ Len(examined) >= 3
  /\ SampleRows(examined) = Rows(coverageCache)
  /\ Len(heap) = Len(examined)

\* the program has a step to take: the next thing it does is not a call of
\* lowerBound that stays in its loop
HasStep ==
  (pc = "pairs" /\ i < Len(points) /\ j < Len(points))
    => lowerBound(ySamples, H(Min(points[i + 1].y, points[j + 1].y))) # NoReturn

\* a bound on the steps the run has left: with n points, the rest of the pair
\* loop from (i, j), and the steps before and after it
StepsLeft ==
  LET n == Len(points)
  IN CASE pc = "part1" -> (n + 2) * (n + 2) + 3
       [] pc = "edges" -> (n + 2) * (n + 2) + 2
       [] pc = "samples" -> (n + 2) * (n + 2) + 1
       [] pc = "pairs" -> (n + 1 - i) * (n + 2) - j
       [] OTHER -> 0

\* C16: part2 returns on every list of points: every step takes the run
\* closer to its return, by a measure that starts finite, and until the return
\* there is a step to take (no call of lowerBound stays in its loop); at most
\* n(n-1)/2 pairs are validated and no call of isRectangleValid examines more
\* samples than ySamples holds.
C16_Terminates ==
  /\ [][StepsLeft' < StepsLeft]_vars
  /\ [](StepsLeft >= 0 /\ (StepsLeft = 0 <=> pc = "done"))
  /\ [](HasStep)
  /\ [](2 * Len(log) <= Len(points) * (Len(points) - 1))
  /\ [](Len(examined) <= Len(ySamples))

\* C16 witness: the solve of an 8-corner polygon has returned after 28 calls
\* of isRectangleValid, the last of which examined three samples or more.
C16_Witness ==
  /\ pc = "done"
  /\ StepsLeft = 0
  /\ Len(points) = MaxPoints
  /\ Len(log) = 28
  /\ Len(ySamples) >= 5
  /\ Len(examined) >= 3

\* the point after points[k] in cyclic order (k is 1-based)
Following(pts, k) == pts[(k % Len(pts)) + 1]

\* the indices of the points whose edge to the following point is not
\* horizontal, in ascending order
RisingFrom(pts) ==
  SelectSeq([k \in 1..Len(pts) |-> k], LAMBDA k : pts[k].y # Following(pts, k).y)

\* C17: on any list of points part2 returns a non-negative integer, 0 for the
\* empty list and for a single point, and part1 does too; every pair of
\* neighbours with different y, diagonal or not, is a vertical edge at the x
\* of its first point, every other pair a horizontal edge.
C17_NoErrorPath ==
  /\ pc # "part1" => answer1 \in Nat
  /\ pc = "done" =>
       /\ result \in Nat
       /\ Len(points) <= 1 => result = 0
  /\ pc \in {"samples", "pairs", "done"} =>
       LET rising == RisingFrom(points)
       IN /\ Len(verticalEdges) = Len(rising)
          /\ Len(horizontalEdges) = Len(points) - Len(rising)
          /\ \A m \in 1..Len(rising) :
               LET p == points[rising[m]]
                   q == Following(points, rising[m])
               IN verticalEdges[m] = [x |-> p.x, y1 |-> Min(p.y, q.y), y2 |-> Max(p.y, q.y)]

\* C17 witness: part2 has returned on a list of three points whose first two
\* pairs of neighbours are diagonal; both are among the vertical edges.
C17_Witness ==
  /\ pc = "done"
  /\ Len(points) = 3
  /\ \A k \in 1..2 :
       points[k].x # Following(points, k).x /\ points[k].y # Following(points, k).y
  /\ Len(verticalEdges) >= 2
  /\ verticalEdges[1].x # verticalEdges[2].x
  /\ Len(log) = 3
  /\ result \in Nat

\* the ranges hold exactly the x for which (x, yy / 2) is in the closed
\* polygon; x runs over the half units from left of the polygon to right of it
CoversSlice(ranges, yy, pts) ==
  \A a \in (-1)..(H(MaxOf({ pts[k].x : k \in 1..Len(pts) })) + 1) :
    InClosedPolygon(a, yy, pts)
      <=> \E k \in 1..Len(ranges) : H(ranges[k].start) <= a /\ a <= H(ranges[k].end)

\* every range of parts lies within one range of whole
Within(parts, whole) ==
  \A m \in 1..Len(parts) :
    \E k \in 1..Len(whole) : whole[k].start <= parts[m].start /\ parts[m].end <= whole[k].end

IsVertexRow(yy, pts) == \E k \in 1..Len(pts) : H(pts[k].y) = yy

\* C18: on a vertex row getCoverageAtY returns ranges that hold the interior
\* half a unit above, the interior half a unit below and every horizontal
\* edge of the row, and that are exactly the x of the closed polygon on that
\* row; no vertex row lies within half a unit above or below another.
C18_VertexRowCoverage ==
  (call.fn = "getCoverageAtY" /\ IsVertexRow(call.y, points)) =>
    LET ranges == heap[coverage]
        flat == SelectSeq(horizontalEdges, LAMBDA e : H(e.y) = call.y)
    IN /\ CoversSlice(ranges, call.y, points)
       /\ Separated(ranges, 1)
       /\ Within(getInteriorAtY(call.y + 1, verticalEdges), ranges)
       /\ Within(getInteriorAtY(call.y - 1, verticalEdges), ranges)
       /\ Within([k \in 1..Len(flat) |-> [start |-> flat[k].x1, end |-> flat[k].x2]], ranges)
       /\ ~IsVertexRow(call.y + 1, points) /\ ~IsVertexRow(call.y - 1, points)

\* C18 witness: getCoverageAtY has been called on a vertex row where the
\* interior just above and the interior just below are both non-empty and
\* differ, and it returned one range longer than either.
C18_Witness ==
  /\ call.fn = "getCoverageAtY"
  /\ IsVertexRow(call.y, points)
  /\ Len(heap[coverage]) = 1
  /\ LET above == getInteriorAtY(call.y + 1, verticalEdges)
         below == getInteriorAtY(call.y - 1, verticalEdges)
     IN /\ Len(above) = 1 /\ Len(below) = 1
        /\ above[1].start > heap[coverage][1].start
        /\ below[1].end < heap[coverage][1].end

\* the x of the vertical edges that cross the row yy, as a bag: x -> how many
CrossingsAt(yy, pts) ==
  { k \in 1..Len(pts) : LET p == pts[k]
                            q == pts[(k % Len(pts)) + 1]
                        IN p.y # q.y /\ H(Min(p.y, q.y)) < yy /\ yy < H(Max(p.y, q.y)) }

\* C19: on an off-vertex row getCoverageAtY returns what getInteriorAtY makes
\* of the vertical edges that cross the row: their number is even, every one
\* of them ends up as the start or the end of a range, and the ranges, in
\* ascending order and apart from each other, are exactly the x of the closed
\* polygon on that row.
C19_OffVertexRowCoverage ==
  (call.fn = "getCoverageAtY" /\ ~IsVertexRow(call.y, points)) =>
    LET ranges == heap[coverage]
        crossed == CrossingsAt(call.y, points)
    IN /\ Cardinality(crossed) % 2 = 0
       /\ 2 * Len(ranges) = Cardinality(crossed)
       /\ { points[k].x : k \in crossed }
            = { ranges[m].start : m \in 1..Len(ranges) }
                \cup { ranges[m].end : m \in 1..Len(ranges) }
       /\ Separated(ranges, 1)
       /\ CoversSlice(ranges, call.y, points)

\* C19 witness: getCoverageAtY has been called on an off-vertex row that four
\* vertical edges cross, and it returned two ranges.
C19_Witness ==
  /\ call.fn = "getCoverageAtY"
  /\ ~IsVertexRow(call.y, points)
  /\ Cardinality(CrossingsAt(call.y, points)) = 4
  /\ Len(heap[coverage]) = 2
  /\ heap[coverage][1].end < heap[coverage][2].start

\* lo and hi are consecutive vertex rows and yy lies strictly between them
InStrip(yy, lo, hi, pts) ==
  /\ {lo, hi} \subseteq VertexRows(pts)
  /\ H(lo) < yy /\ yy < H(hi)
  /\ \A v \in VertexRows(pts) : v <= lo \/ v >= hi

\* C20: on every row strictly between two consecutive vertex rows the
\* coverage is the coverage on the row midway between the two.
C20_ConstantInStrip ==
  call.fn = "getCoverageAtY" =>
    \A lo, hi \in VertexRows(points) :
      InStrip(call.y, lo, hi, points)
        => /\ lo + hi \in SampleRows(ySamples)
           /\ heap[coverage] = getInteriorAtY(lo + hi, verticalEdges)

\* C20 witness: getCoverageAtY has been called on a row of a strip two units
\* high, half a unit below the upper vertex row and so not the row midway,
\* and it returned two ranges.
C20_Witness ==
  /\ call.fn = "getCoverageAtY"
  /\ \E lo, hi \in VertexRows(points) :
       /\ InStrip(call.y, lo, hi, points)
       /\ hi - lo = 2
       /\ call.y = H(hi) - 1
  /\ Len(heap[coverage]) = 2

\* the distinct vertex rows in ascending order: the m-th smallest, m from 1
NthRow(pts, m) ==
  CHOOSE v \in VertexRows(pts) : Cardinality({ w \in VertexRows(pts) : w < v }) = m - 1

\* C21: ySamples is strictly ascending, and for k distinct vertex rows it has
\* 2k-1 entries: the vertex rows in ascending order at the even indices
\* (0-based) and between any two of them the midpoint of the two.
C21_SamplesAlternate ==
  pc \in {"pairs", "done"} =>
    LET k == Cardinality(VertexRows(points))
    IN /\ Len(ySamples) = 2 * k - 1
       /\ \A m \in 1..(Len(ySamples) - 1) : ySamples[m] < ySamples[m + 1]
       /\ \A m \in 1..k : ySamples[2 * m - 1] = H(NthRow(points, m))
       /\ \A m \in 1..(k - 1) :
            ySamples[2 * m] = NthRow(points, m) + NthRow(points, m + 1)

\* C21 witness: the samples of a polygon with three distinct vertex rows have
\* been built: five samples, one midpoint an integer and one not.
C21_Witness ==
  /\ pc = "pairs"
  /\ Len(ySamples) = 5
  /\ ySamples[2] % 2 = 1
  /\ ySamples[4] % 2 = 0
  /\ Len(points) > Cardinality(VertexRows(points))

\* the indices of the points whose edge to the following point is horizontal
\* (the two points have equal y), in ascending order
FlatFrom(pts) ==
  SelectSeq([k \in 1..Len(pts) |-> k], LAMBDA k : pts[k].y = Following(pts, k).y)

\* C22: the edge lists hold one edge for each point and the point that
\* follows it, the last with the first included: n edges in all, the pairs
\* with equal y as horizontal edges {y, min x, max x} and the others as
\* vertical edges {x of the first point, min y, max y}, each list in the order
\* of the points; so x1 <= x2 and y1 <= y2 throughout.
C22_OneEdgePerPair ==
  pc \in {"samples", "pairs", "done"} =>
    LET flat == FlatFrom(points)
        rising == RisingFrom(points)
    IN /\ Len(horizontalEdges) + Len(verticalEdges) = Len(points)
       /\ horizontalEdges =
            [m \in 1..Len(flat) |->
               LET p == points[flat[m]]
                   q == Following(points, flat[m])
               IN [y |-> p.y, x1 |-> Min(p.x, q.x), x2 |-> Max(p.x, q.x)]]
       /\ verticalEdges =
            [m \in 1..Len(rising) |->
               LET p == points[rising[m]]
                   q == Following(points, rising[m])
               IN [x |-> p.x, y1 |-> Min(p.y, q.y), y2 |-> Max(p.y, q.y)]]
       /\ \A m \in 1..Len(horizontalEdges) : horizontalEdges[m].x1 <= horizontalEdges[m].x2
       /\ \A m \in 1..Len(verticalEdges) : verticalEdges[m].y1 <= verticalEdges[m].y2

\* C22 witness: the edges of an 8-corner polygon have been built, four of each
\* kind; the closing edge is vertical and runs from a higher row to a lower.
C22_Witness ==
  /\ pc = "samples"
  /\ Len(points) = MaxPoints
  /\ Len(horizontalEdges) = 4
  /\ Len(verticalEdges) = 4
  /\ points[Len(points)].x = points[1].x
  /\ points[Len(points)].y > points[1].y
  /\ verticalEdges[4] = [x |-> points[1].x, y1 |-> points[1].y, y2 |-> points[Len(points)].y]

\* the samples s with minY <= s <= maxY for the corners p1 and p2, in the
\* order of the sample list
InRange(samples, p1, p2) ==
  SelectSeq(samples, LAMBDA s : H(Min(p1.y, p2.y)) <= s /\ s <= H(Max(p1.y, p2.y)))

\* the first index (0-based) whose sample is >= minY, the length if none
FirstAtLeast(samples, minY) ==
  Cardinality({ k \in 1..Len(samples) : \A m \in 1..k : samples[m] < H(minY) })

\* a single range of the ranges holds [minX, maxX] of the corners p1 and p2
HoldsSpan(ranges, p1, p2) ==
  \E k \in 1..Len(ranges) :
    ranges[k].start <= Min(p1.x, p2.x) /\ ranges[k].end >= Max(p1.x, p2.x)

\* the binary-search isRectangleValid has returned what the linear scan of
\* the visualizer returned on the same arguments and cache contents, having
\* examined the same samples and left the same cache contents
SameAsLinear ==
  /\ first.answer = valid
  /\ first.examined = examined
  /\ first.cache = Contents(coverageCache, heap)

\* C23 as claimed: isRectangleValid examines exactly the samples in
\* [minY, maxY], in ascending order from lowerBound(ySamples, minY), and agrees
\* with the linear scan.
C23_ExaminesAllInRange ==
  pc = "compared" =>
    /\ lowerBound(ySamples, H(Min(call.p1.y, call.p2.y)))
         = FirstAtLeast(ySamples, Min(call.p1.y, call.p2.y))
    /\ examined = InRange(ySamples, call.p1, call.p2)
    /\ SameAsLinear

\* C23 amended: isRectangleValid examines the samples in [minY, maxY] in
\* ascending order from lowerBound(ySamples, minY): all of them when it
\* returns true, and those up to the first one that does not cover
\* [minX, maxX] when it returns false; it agrees with the linear scan.
C23_ExaminesInRangePrefix ==
  pc = "compared" =>
    LET inRange == InRange(ySamples, call.p1, call.p2)
        n == Len(examined)
        ranges(yy) == heap[coverageCache[yy]]
    IN /\ lowerBound(ySamples, H(Min(call.p1.y, call.p2.y)))
            = FirstAtLeast(ySamples, Min(call.p1.y, call.p2.y))
       /\ n <= Len(inRange)
       /\ examined = SubSeq(inRange, 1, n)
       /\ valid => n = Len(inRange)
       /\ ~valid => n >= 1 /\ ~HoldsSpan(ranges(examined[n]), call.p1, call.p2)
       /\ \A m \in 1..(n - 1) : HoldsSpan(ranges(examined[m]), call.p1, call.p2)
       /\ SameAsLinear

\* C23 witness: a call on a rectangle with samples below minY and above maxY
\* has examined three samples or more and returned true.
C23_Witness ==
  /\ pc = "compared"
  /\ valid
  /\ Len(examined) >= 3
  /\ lowerBound(ySamples, H(Min(call.p1.y, call.p2.y))) >= 2
  /\ Len(ySamples) > Len(examined) + 3
  /\ call.p1.x # call.p2.x

\* the coverage of row yy computed afresh, on an empty cache
FreshCoverage(yy) ==
  LET got == getCoverageAtY(yy, points, verticalEdges, horizontalEdges, EmptyMap, << >>)
  IN got.heap[got.coverage]

\* C24: when a sample of [minY, maxY] has no single range that holds
\* [minX, maxX], a call of isRectangleValid returns false having examined the
\* samples of [minY, maxY] up to the first such one, in ascending order, and
\* no more: it allocates one coverage array for each examined sample that was
\* not cached, and no sample above the failing one gains a cache entry.
C24_ShortCircuit ==
  [][IsValidityCall =>
       LET inRange == InRange(ySamples, call'.p1, call'.p2)
           failing == { k \in 1..Len(inRange) :
                          ~HoldsSpan(FreshCoverage(inRange[k]), call'.p1, call'.p2) }
       IN failing # {} =>
            LET f == CHOOSE k \in failing : \A m \in failing : k <= m
            IN /\ ~valid'
               /\ examined' = SubSeq(inRange, 1, f)
               /\ \A s \in SampleRows(ySamples) :
                    s > inRange[f] => (s \in Rows(coverageCache') <=> s \in Rows(coverageCache))
               /\ Len(heap') = Len(heap)
                    + Cardinality(SampleRows(examined') \ Rows(coverageCache))]_vars

\* C24 witness: a call has returned false at the second sample of its range
\* or later, with samples of the range above it left unexamined and one of
\* them still without a cache entry.
C24_Witness ==
  /\ pc = "pairs"
  /\ call.fn = "isRectangleValid"
  /\ ~valid
  /\ Len(examined) >= 2
  /\ Len(examined) < Len(InRange(ySamples, call.p1, call.p2))
  /\ \E s \in SampleRows(InRange(ySamples, call.p1, call.p2)) :
       s > examined[Len(examined)] /\ s \notin Rows(coverageCache)

\* the half-unit x that the ranges cover
CoveredPoints(ranges) ==
  { a \in 0..H(MaxX) : \E k \in 1..Len(ranges) : H(ranges[k].start) <= a /\ a <= H(ranges[k].end) }

\* C25: what mergeRanges returns is sorted by start with
\* out[i].end < out[i+1].start for all i, covers the points its input covers
\* and no others, and comes back equal from mergeRanges.
C25_MergeNormalForm ==
  /\ pc \in {"merged", "remerged"} =>
       /\ \A k \in 1..(Len(result) - 1) :
            result[k].start <= result[k + 1].start /\ result[k].end < result[k + 1].start
       /\ CoveredPoints(result) = CoveredPoints(call.ranges)
  /\ pc = "remerged" => result = first

\* C25 witness: mergeRanges was called on three ranges out of order, two of
\* them touching in one point and one nested in another, and then on the two
\* ranges it returned.
C25_Witness ==
  /\ pc = "remerged"
  /\ Len(call.ranges) = 3
  /\ call.ranges[1].start > call.ranges[2].start
  /\ \E a, b \in 1..3 : a # b /\ call.ranges[a].end = call.ranges[b].start
                          /\ call.ranges[a].start < call.ranges[a].end
  /\ Len(first) = 2
  /\ first # call.ranges

\* isRectangleValid on the corners p1 and p2, called on an empty cache
FreshValid(p1, p2) ==
  isRectangleValid(p1, p2, ySamples, points, verticalEdges, horizontalEdges,
                   EmptyMap, << >>).valid

\* C26: every entry of the cache holds the coverage that a computation on an
\* empty cache gives for its row; every call of isRectangleValid returns what
\* it returns on an empty cache; and part2 returns the largest area over the
\* set of pairs that are valid on an empty cache (0 if there is none),
\* whatever was validated before and in whatever order.
C26_CacheTransparent ==
  /\ [](\A y \in Rows(coverageCache) : heap[coverageCache[y]] = FreshCoverage(y))
  /\ [][IsValidityCall => valid' = FreshValid(call'.p1, call'.p2)]_vars
  /\ [](pc = "done" =>
          result = MaxOf({0} \cup { area(points[e[1] + 1], points[e[2] + 1]) :
                                      e \in { q \in Pairs(Len(points)) :
                                                FreshValid(points[q[1] + 1], points[q[2] + 1]) } }))

\* C26 witness: a solve is done in which every sample came to be cached,
\* more calls of isRectangleValid were made than coverages computed, the last
\* call read from the cache alone, and the answer is below the largest area.
C26_Witness ==
  /\ pc = "done"
  /\ Len(heap) = Len(ySamples)
  /\ Len(ySamples) >= 5
  /\ Len(log) > Len(heap)
  /\ result > 0
  /\ result < answer1

\* C27: during part2 every key of the cache is a sample, the cache holds at
\* most 2k-1 entries for k distinct vertex rows, and every key lies in
\* [minY, maxY] of a pair that isRectangleValid was called on.
C27_KeysAreValidatedSamples ==
  /\ Rows(coverageCache) \subseteq SampleRows(ySamples)
  /\ pc \in {"pairs", "done"} =>
       Cardinality(Rows(coverageCache)) <= 2 * Cardinality(VertexRows(points)) - 1
  /\ \A y \in Rows(coverageCache) :
       \E m \in 1..Len(log) :
         /\ H(Min(points[log[m].i + 1].y, points[log[m].j + 1].y)) <= y
         /\ y <= H(Max(points[log[m].i + 1].y, points[log[m].j + 1].y))

\* C27 witness: two pairs or more have been validated on a polygon of three
\* rows or more, and the cache holds some of the samples and not all.
C27_Witness ==
  /\ pc = "pairs"
  /\ Len(log) >= 2
  /\ Cardinality(VertexRows(points)) >= 3
  /\ Cardinality(Rows(coverageCache)) >= 2
  /\ Cardinality(Rows(coverageCache)) < Len(ySamples)

\* C28: for every list of points part2 returns at most what part1 returns,
\* and what part2 returns is 0 or the area of a pair of the points.
C28_Part2AtMostPart1 ==
  pc = "done" =>
    /\ result <= answer1
    /\ result # 0 =>
         \E e \in Pairs(Len(points)) : result = area(points[e[1] + 1], points[e[2] + 1])

\* C28 witness: on a list of three points that is no rectilinear polygon part2
\* has returned an area above 0 and below what part1 returned.
C28_Witness ==
  /\ pc = "done"
  /\ Len(points) = 3
  /\ \E k \in 1..3 : ~Aligned(points[k], points[(k % 3) + 1])
  /\ result > 0
  /\ result < answer1

PhaseForward ==
  /\ points' = points
  /\ part' = part
  /\ \/ /\ phase = "building_polygon" /\ phase' = "scanning"
        /\ currentEdgeIndex >= Len(points)
     \/ /\ phase = "collecting_pairs" /\ phase' = "scanning"
        /\ collectingFromPoint >= Len(points) - 1
     \/ /\ phase = "scanning" /\ phase' = "complete"
        /\ currentPairIndex >= Len(allPairs)

\* a step of the visualizer that is a reset: by a new input, a new mode or a
\* restart, with the counters at 0, no best rectangle and an empty cache
PhaseReset ==
  /\ points' # points \/ part' # part \/ phase' = startPhase(part)
  /\ currentEdgeIndex' = 0
  /\ collectingFromPoint' = 0
  /\ collectedPairsCount' = 0
  /\ currentPairIndex' = 0
  /\ testedPairs' = 0
  /\ validPairs' = 0
  /\ bestRectangle' = null
  /\ coverageCache' = EmptyMap

====
